---- MODULE Spec2Model ----
(***************************************************************************)
(* FP-Growth frequent item-set mining: the FP-tree of                      *)
(* generate_tree_node.py (fp_tree, fp_node) and the mining generator of    *)
(* generate_fp_growth.py (generate_freq_item_sets, order_transactions,     *)
(* conditional_db).                                                        *)
(*                                                                         *)
(* Objects live in an arena: `nodes` holds every fp_node ever created (of  *)
(* every tree) and `trees` every fp_tree; references are indices, None is  *)
(* 0.  A Python dict is a function whose DOMAIN is its key set; the        *)
(* insertion-ordered route table is a sequence of (item, start, end).      *)
(***************************************************************************)
EXTENDS Integers, Sequences, FiniteSets, TLC

VARIABLES
    given,               \* the transactions as the caller handed them over
    input_transactions,  \* the caller's list of lists, as it is now
    minimum_support,
    item_sets,           \* the defaultdict(lambda: 0) of generate_freq_item_sets
    ordered,             \* list(map(order_transactions, ...)) so far
    inserted,            \* how many sequences append_items has taken
    nodes,               \* arena of fp_node objects
    trees,               \* arena of fp_tree objects
    stack,               \* active conditional_db generator frames, innermost last
    results,             \* the pairs yielded so far
    pc                   \* position in generate_freq_item_sets

vars == <<given, input_transactions, minimum_support, item_sets, ordered,
          inserted, nodes, trees, stack, results, pc>>

----------------------------------------------------------------------------
(* Bounds of the enumerated inputs *)
NumItems == 3     \* distinct items
MaxCells == 4     \* item occurrences over all transactions
MaxTxns == 2      \* transactions
MaxSup == 2       \* minimum support
MaxAppends == 2   \* append_items calls on a tree of its own

Items == 1..NumItems
None == 0          \* Python None as item, parent, adjacent_item
NoCount == -1      \* Python None as the root's count

\* the sequences of at most MaxCells items
Strings == UNION {[1..n -> Items] : n \in 0..MaxCells}

Last(s) == s[Len(s)]
Front(s) == SubSeq(s, 1, Len(s) - 1)
Range(s) == {s[i] : i \in DOMAIN s}

RECURSIVE Reverse(_)
Reverse(s) == IF s = <<>> THEN <<>> ELSE Append(Reverse(Tail(s)), Head(s))

EmptyDict == [k \in {} |-> 0]

\* Python evaluates an argument once and passes the object: F applied to the
\* value of v
ByValue(v, F(_)) == CHOOSE r \in {F(x) : x \in {v}} : TRUE

----------------------------------------------------------------------------
(* generate_tree_node.py : fp_node *)

fp_node(tree, data_point, count) ==
    [tree |-> tree, item |-> data_point, count |-> count, parent |-> None,
     children |-> EmptyDict, adjacent_item |-> None]

\* allocate an fp_node in the arena; its reference is Len of the new arena
new_node(s, tree, data_point, count) ==
    [s EXCEPT !.nodes = Append(@, fp_node(tree, data_point, count))]

\* fp_node.root
is_root(s, n) == s.nodes[n].item = None /\ s.nodes[n].count = NoCount

\* fp_node.find
find(s, n, item) ==
    IF item \in DOMAIN s.nodes[n].children THEN s.nodes[n].children[item] ELSE None

\* fp_node.add_node
add_node(s, p, child) ==
    IF s.nodes[child].item \notin DOMAIN s.nodes[p].children
    THEN [s EXCEPT !.nodes[p].children = (s.nodes[child].item :> child) @@ @,
                   !.nodes[child].parent = p]
    ELSE s

\* increase_count with the increment lost
increase_count_lost(s, n) == s

\* fp_node.increase_count
increase_count(s, n) == [s EXCEPT !.nodes[n].count = @ + 1]

----------------------------------------------------------------------------
(* generate_tree_node.py : fp_tree *)

\* fp_tree.__init__ ; the new tree's reference is Len of the new tree arena
new_tree(s) ==
    LET t == Len(s.trees) + 1
        s1 == new_node(s, t, None, NoCount)
    IN [s1 EXCEPT !.trees = Append(@, [root |-> Len(s1.nodes), routes |-> <<>>])]

\* position of item in the route table of tree t, 0 when absent (KeyError)
route_index(s, t, item) ==
    LET r == s.trees[t].routes
        I == {i \in DOMAIN r : r[i].item = item}
    IN IF I = {} THEN 0 ELSE CHOOSE i \in I : TRUE

\* revise_route_table that moves the end of the route but does not link the
\* previous end to the new node
revise_route_table_unlinked(s, t, curr_ptr) ==
    LET item == s.nodes[curr_ptr].item
        i == route_index(s, t, item)
    IN IF i # 0
       THEN [s EXCEPT !.trees[t].routes[i] =
                 [item |-> item, start |-> s.trees[t].routes[i].start, end |-> curr_ptr]]
       ELSE [s EXCEPT !.trees[t].routes =
                 Append(@, [item |-> item, start |-> curr_ptr, end |-> curr_ptr])]

\* fp_tree.revise_route_table
revise_route_table(s, t, curr_ptr) ==
    LET item == s.nodes[curr_ptr].item
        i == route_index(s, t, item)
    IN IF i # 0
       THEN LET route == s.trees[t].routes[i]
            IN [s EXCEPT !.nodes[route.end].adjacent_item = curr_ptr,
                         !.trees[t].routes[i] =
                             [item |-> item, start |-> route.start, end |-> curr_ptr]]
       ELSE [s EXCEPT !.trees[t].routes =
                 Append(@, [item |-> item, start |-> curr_ptr, end |-> curr_ptr])]

RECURSIVE follow_adjacent(_, _)
\* the while loop of get_nodes
follow_adjacent(s, node) ==
    IF node = None THEN <<>>
    ELSE ByValue(s.nodes[node].adjacent_item,
                 LAMBDA next : <<node>> \o follow_adjacent(s, next))

\* fp_tree.get_nodes
get_nodes(s, t, item) ==
    LET i == route_index(s, t, item)
    IN IF i = 0 THEN <<>> ELSE follow_adjacent(s, s.trees[t].routes[i].start)

RECURSIVE path_to(_, _)
\* the while loop of get_parent_paths followed by curr_path.reverse()
path_to(s, node) ==
    IF node = None \/ is_root(s, node) THEN <<>>
    ELSE ByValue(s.nodes[node].parent, LAMBDA up : Append(path_to(s, up), node))

RECURSIVE prepend_paths(_, _)
prepend_paths(s, ns) ==
    IF ns = <<>> THEN <<>>
    ELSE Append(prepend_paths(s, Tail(ns)), path_to(s, Head(ns)))

\* fp_tree.get_parent_paths
get_parent_paths(s, t, item) ==
    ByValue(get_nodes(s, t, item), LAMBDA ns : prepend_paths(s, ns))

\* one pass of the loop of append_items: the arena and curr_pointer after it
append_item(s, t, curr_pointer, item) ==
    LET nxt_ptr == find(s, curr_pointer, item)
    IN IF nxt_ptr = None
       THEN LET n == Len(s.nodes) + 1
            IN ByValue(new_node(s, t, item, 1), LAMBDA s1 :
               ByValue(add_node(s1, curr_pointer, n), LAMBDA s2 :
                   [s |-> revise_route_table(s2, t, n), curr_pointer |-> n]))
       ELSE [s |-> increase_count(s, nxt_ptr), curr_pointer |-> nxt_ptr]

RECURSIVE append_from(_, _, _, _)
append_from(s, t, curr_pointer, item_list) ==
    IF item_list = <<>> THEN s
    ELSE ByValue(append_item(s, t, curr_pointer, Head(item_list)),
                 LAMBDA r : append_from(r.s, t, r.curr_pointer, Tail(item_list)))

\* fp_tree.append_items
append_items(s, t, item_list) == append_from(s, t, s.trees[t].root, item_list)

----------------------------------------------------------------------------
(* generate_fp_growth.py : generate_freq_item_sets, lines 26-57 *)

RECURSIVE occurrences(_, _)
\* number of positions of s holding item
occurrences(s, item) ==
    IF s = <<>> THEN 0
    ELSE (IF Head(s) = item THEN 1 ELSE 0) + occurrences(Tail(s), item)

RECURSIVE total_occurrences(_, _)
\* item_sets[each_column] += 1 over every transaction
total_occurrences(txns, item) ==
    IF txns = <<>> THEN 0
    ELSE occurrences(Head(txns), item) + total_occurrences(Tail(txns), item)

\* item_sets after the counting loop and the deletion of temp_list
frequent_items(txns, minsup) ==
    LET seen == UNION {Range(txns[k]) : k \in DOMAIN txns}
        keep == {i \in seen : total_occurrences(txns, i) >= minsup}
    IN [i \in keep |-> total_occurrences(txns, i)]

\* list.remove(x): drops the first element equal to x
list_remove(l, x) ==
    LET j == CHOOSE k \in DOMAIN l : l[k] = x /\ \A m \in 1..(k - 1) : l[m] # x
    IN SubSeq(l, 1, j - 1) \o SubSeq(l, j + 1, Len(l))

RECURSIVE remove_loop(_, _, _)
\* the for loop of order_transactions: the list iterator keeps an index i
\* into the list that the body shortens
remove_loop(l, i, dict) ==
    IF i > Len(l) THEN l
    ELSE IF l[i] \notin DOMAIN dict
         THEN ByValue(list_remove(l, l[i]), LAMBDA l1 : remove_loop(l1, i + 1, dict))
         ELSE remove_loop(l, i + 1, dict)

\* item_sets[v] on the defaultdict: 0 for a missing key
sort_key(dict, v) == IF v \in DOMAIN dict THEN dict[v] ELSE 0

\* place e behind every element whose key is not smaller (stable, reverse=True)
insert_sorted(out, e, dict) ==
    LET smaller == {k \in DOMAIN out : sort_key(dict, out[k]) < sort_key(dict, e)}
        j == IF smaller = {} THEN Len(out) + 1
             ELSE CHOOSE k \in smaller : \A m \in smaller : k <= m
    IN SubSeq(out, 1, j - 1) \o <<e>> \o SubSeq(out, j, Len(out))

RECURSIVE sorted_reverse(_, _, _)
\* sorted(each_transaction, key=lambda v: item_sets[v], reverse=True)
sorted_reverse(l, out, dict) ==
    IF l = <<>> THEN out
    ELSE ByValue(insert_sorted(out, Head(l), dict),
                 LAMBDA out1 : sorted_reverse(Tail(l), out1, dict))

\* the defaultdict after the key function has read item_sets[v] for each v
touch_keys(dict, l) ==
    [i \in DOMAIN dict \cup Range(l) |-> sort_key(dict, i)]

\* order_transactions: the returned list, the caller's list and item_sets after it
order_transactions(each_transaction, dict) ==
    ByValue(remove_loop(each_transaction, 1, dict), LAMBDA left :
        [result |-> sorted_reverse(left, <<>>, dict),
         argument |-> left,
         item_sets |-> touch_keys(dict, left)])

----------------------------------------------------------------------------
(* generate_fp_growth.py : conditional_db, lines 81-149 *)

RECURSIVE sum_counts(_, _)
\* curr_support over the nodes of a route
sum_counts(s, ns) ==
    IF ns = <<>> THEN 0 ELSE s.nodes[Head(ns)].count + sum_counts(s, Tail(ns))

\* membership test that overlooks the first element of the list
in_list_but_first(x, l) == \E k \in DOMAIN l : k > 1 /\ l[k] = x

in_list(x, l) == \E k \in DOMAIN l : l[k] = x

\* line 88
skip_item(curr_support, route_table_item, retrieved_list, minsup) ==
    curr_support < minsup \/ in_list(route_table_item, retrieved_list)

\* lines 116-137: one node of a prefix path merged into cond_tree below
\* tree_pointer; the arena and tree_pointer after it
build_node(s, cond_tree, tree_pointer, node, cond_item) ==
    LET next_point == find(s, tree_pointer, s.nodes[node].item)
    IN IF next_point # None
       THEN [s |-> s, tree_pointer |-> next_point]
       ELSE LET current_count == IF s.nodes[node].item = cond_item
                                 THEN s.nodes[node].count ELSE 0
                n == Len(s.nodes) + 1
            IN ByValue(new_node(s, cond_tree, s.nodes[node].item, current_count),
                       LAMBDA s1 :
               ByValue(add_node(s1, tree_pointer, n), LAMBDA s2 :
                   [s |-> revise_route_table(s2, cond_tree, n), tree_pointer |-> n]))

RECURSIVE build_path(_, _, _, _, _)
\* lines 114-137: one prefix path merged into cond_tree
build_path(s, cond_tree, tree_pointer, curr_path, cond_item) ==
    IF curr_path = <<>> THEN s
    ELSE ByValue(build_node(s, cond_tree, tree_pointer, Head(curr_path), cond_item),
                 LAMBDA r : build_path(r.s, cond_tree, r.tree_pointer,
                                       Tail(curr_path), cond_item))

RECURSIVE build_paths(_, _, _, _)
\* lines 107-137
build_paths(s, cond_tree, parent_paths, cond_item) ==
    IF parent_paths = <<>> THEN s
    ELSE ByValue(build_path(s, cond_tree, s.trees[cond_tree].root,
                            Head(parent_paths), cond_item),
                 LAMBDA s1 : build_paths(s1, cond_tree, Tail(parent_paths), cond_item))

RECURSIVE add_to_counts(_, _, _)
\* lines 143-144: node._count += current_count for each node of ns
add_to_counts(s, ns, current_count) ==
    IF ns = <<>> THEN s
    ELSE ByValue([s EXCEPT !.nodes[Head(ns)].count = @ + current_count],
                 LAMBDA s1 : add_to_counts(s1, Tail(ns), current_count))

\* the walk of line 143 stopping one node short: reversed(curr_path[:-2])
ancestors_of_last_short(curr_path) == Reverse(Front(Front(curr_path)))

\* the nodes line 143 walks: reversed(curr_path[:-1])
ancestors_of_last(curr_path) == Reverse(Front(curr_path))

RECURSIVE propagate_counts(_, _)
\* lines 140-144
propagate_counts(s, paths) ==
    IF paths = <<>> THEN s
    ELSE LET curr_path == Head(paths)
             current_count == s.nodes[Last(curr_path)].count
         IN ByValue(add_to_counts(s, ancestors_of_last(curr_path), current_count),
                    LAMBDA s1 : propagate_counts(s1, Tail(paths)))

\* lines 140-144 run on the prefix paths of the mined tree itself, with no
\* tree of its own for the conditional database
conditional_tree_in_place(s, tree, route_table_item) ==
    ByValue(get_parent_paths(s, tree, route_table_item),
            LAMBDA paths : propagate_counts(s, paths))

\* lines 99-144: the arena after the conditional tree of route_table_item
\* has been built; the new tree is the last one of the tree arena
conditional_tree(s, tree, route_table_item) ==
    ByValue(get_parent_paths(s, tree, route_table_item), LAMBDA parent_paths :
        LET cond_tree == Len(s.trees) + 1
            cond_item == IF parent_paths = <<>> THEN None
                         ELSE s.nodes[Last(parent_paths[1])].item
        IN ByValue(build_paths(new_tree(s), cond_tree, parent_paths, cond_item),
                   LAMBDA s2 :
                       ByValue(get_parent_paths(s2, cond_tree, cond_item),
                               LAMBDA paths : propagate_counts(s2, paths))))

----------------------------------------------------------------------------
(* The run of generate_freq_item_sets as a state machine *)

store == [nodes |-> nodes, trees |-> trees]

first_fp_tree == 1

RECURSIVE flatten(_)
flatten(txns) == IF txns = <<>> THEN <<>> ELSE Head(txns) \o flatten(Tail(txns))

\* Items are opaque values that the program only compares for equality, so
\* the inputs are enumerated up to renaming: items are numbered in the order
\* of their first occurrence.
first_seen_order(f) ==
    \A k \in DOMAIN f : f[k] = 1 \/ \E m \in 1..(k - 1) : f[m] = f[k] - 1

\* the ways to cut a sequence of length len into n consecutive transactions
\* (empty ones included): c[k] is where transaction k ends
Cuts(n, len) ==
    {c \in [0..n -> 0..len] : c[0] = 0 /\ c[n] = len /\ \A k \in 1..n : c[k - 1] <= c[k]}

split(f, c, n) == [k \in 1..n |-> SubSeq(f, c[k - 1] + 1, c[k])]

\* the transaction lists a caller may pass: at most MaxTxns transactions with
\* at most MaxCells items in all
TxnLists ==
    UNION {UNION {{split(f, c, n) : c \in Cuts(n, Len(f))} : n \in 0..MaxTxns} :
               f \in {g \in Strings : first_seen_order(g)}}

Init ==
    /\ given \in TxnLists
    /\ input_transactions = given
    /\ minimum_support \in 1..MaxSup
    /\ item_sets = EmptyDict
    /\ ordered = <<>>
    /\ inserted = 0
    /\ nodes = <<>>
    /\ trees = <<>>
    /\ stack = <<>>
    /\ results = <<>>
    /\ pc = "count"

\* lines 26-42 and 62: the frequency mapping and the empty first_fp_tree
count_items ==
    /\ pc = "count"
    /\ item_sets' = frequent_items(input_transactions, minimum_support)
    /\ \E s \in {new_tree(store)} : nodes' = s.nodes /\ trees' = s.trees
    /\ pc' = "order"
    /\ UNCHANGED <<given, input_transactions, minimum_support, ordered, inserted,
                   stack, results>>

\* line 63: map(order_transactions, ...) reaches the next transaction
order_next ==
    /\ pc = "order"
    /\ Len(ordered) < Len(input_transactions)
    /\ LET k == Len(ordered) + 1
       IN \E r \in {order_transactions(input_transactions[k], item_sets)} :
              /\ ordered' = Append(ordered, r.result)
              /\ input_transactions' = [input_transactions EXCEPT ![k] = r.argument]
              /\ item_sets' = r.item_sets
    /\ UNCHANGED <<given, minimum_support, inserted, nodes, trees, stack, results, pc>>

\* line 63: list(map(...)) is complete, the insertion loop starts
order_done ==
    /\ pc = "order"
    /\ Len(ordered) = Len(input_transactions)
    /\ pc' = "insert"
    /\ UNCHANGED <<given, input_transactions, minimum_support, item_sets, ordered,
                   inserted, nodes, trees, stack, results>>

\* line 64: first_fp_tree.append_items(transaction)
insert_next ==
    /\ pc = "insert"
    /\ inserted < Len(ordered)
    /\ \E s \in {append_items(store, first_fp_tree, ordered[inserted + 1])} :
           nodes' = s.nodes /\ trees' = s.trees
    /\ inserted' = inserted + 1
    /\ UNCHANGED <<given, input_transactions, minimum_support, item_sets, ordered,
                   stack, results, pc>>

\* line 151: conditional_db(first_fp_tree, []) starts
mine_start ==
    /\ pc = "insert"
    /\ inserted = Len(ordered)
    /\ pc' = "mine"
    /\ stack' = <<[tree |-> first_fp_tree, retrieved_list |-> <<>>, idx |-> 1]>>
    /\ UNCHANGED <<given, input_transactions, minimum_support, item_sets, ordered,
                   inserted, nodes, trees, results>>

top == stack[Len(stack)]
top_routes == trees[top.tree].routes
top_item == top_routes[top.idx].item
top_support ==
    ByValue(get_nodes(store, top.tree, top_item), LAMBDA ns : sum_counts(store, ns))

\* lines 81-89: the innermost generator skips the next route-table item
mine_skip ==
    /\ pc = "mine"
    /\ top.idx <= Len(top_routes)
    /\ skip_item(top_support, top_item, top.retrieved_list, minimum_support)
    /\ stack' = [stack EXCEPT ![Len(stack)].idx = @ + 1]
    /\ UNCHANGED <<given, input_transactions, minimum_support, item_sets, ordered,
                   inserted, nodes, trees, results, pc>>

\* lines 93-148: the innermost generator yields an item-set, builds the
\* conditional tree and enters conditional_db on it
mine_expand ==
    /\ pc = "mine"
    /\ top.idx <= Len(top_routes)
    /\ ~skip_item(top_support, top_item, top.retrieved_list, minimum_support)
    /\ LET freq_item_set == <<top_item>> \o top.retrieved_list
       IN /\ results' = Append(results, [items |-> freq_item_set, support |-> top_support])
          /\ \E s \in {conditional_tree(store, top.tree, top_item)} :
                 /\ nodes' = s.nodes
                 /\ trees' = s.trees
                 /\ stack' = Append(stack, [tree |-> Len(s.trees),
                                            retrieved_list |-> freq_item_set, idx |-> 1])
    /\ UNCHANGED <<given, input_transactions, minimum_support, item_sets, ordered,
                   inserted, pc>>

\* the innermost generator is exhausted: its caller's loop moves on
mine_return ==
    /\ pc = "mine"
    /\ top.idx > Len(top_routes)
    /\ IF Len(stack) = 1
       THEN stack' = <<>> /\ pc' = "done"
       ELSE /\ stack' = [Front(stack) EXCEPT ![Len(stack) - 1].idx = @ + 1]
            /\ pc' = pc
    /\ UNCHANGED <<given, input_transactions, minimum_support, item_sets, ordered,
                   inserted, nodes, trees, results>>

Next ==
    \/ count_items
    \/ order_next
    \/ order_done
    \/ insert_next
    \/ mine_start
    \/ mine_skip
    \/ mine_expand
    \/ mine_return

Spec == Init /\ [][Next]_vars

\* The generator is consumed to the end: the single thread keeps taking steps.
FairSpec == Spec /\ WF_vars(Next)

----------------------------------------------------------------------------
(* fp_tree on its own: any sequence of append_items calls on one tree *)

TreeInit ==
    /\ given = <<>>
    /\ input_transactions = <<>>
    /\ minimum_support = 1
    /\ item_sets = EmptyDict
    /\ ordered = <<>>
    /\ inserted = 0
    /\ LET s == new_tree([nodes |-> <<>>, trees |-> <<>>])
       IN nodes = s.nodes /\ trees = s.trees
    /\ stack = <<>>
    /\ results = <<>>
    /\ pc = "tree"

\* a caller hands item_list to first_fp_tree.append_items
tree_append(item_list) ==
    /\ pc = "tree"
    /\ inserted < MaxAppends
    /\ Len(flatten(ordered)) + Len(item_list) <= MaxCells
    /\ \E s \in {append_items(store, first_fp_tree, item_list)} :
           nodes' = s.nodes /\ trees' = s.trees
    /\ ordered' = Append(ordered, item_list)
    /\ inserted' = inserted + 1
    /\ UNCHANGED <<given, input_transactions, minimum_support, item_sets, stack,
                   results, pc>>

TreeNext == \E item_list \in Strings : tree_append(item_list)

TreeSpec == TreeInit /\ [][TreeNext]_vars

----------------------------------------------------------------------------
(* Reference definitions over the input as given *)

\* number of given transactions that contain every item of A
brute_support(A) == Cardinality({k \in DOMAIN given : A \subseteq Range(given[k])})

\* the global count of an item: its occurrences over the given transactions
global_count(item) == total_occurrences(given, item)

emitted_sets == {Range(results[k].items) : k \in DOMAIN results}

----------------------------------------------------------------------------
(* C1 - C5, C8 : the contract of generate_freq_item_sets and order_transactions *)

\* C1: when the generator is exhausted, every non-empty item-set contained in
\* at least minimum_support of the given transactions is among the results.
C1_Completeness ==
    pc = "done" =>
        \A A \in (SUBSET Items) \ {{}} :
            brute_support(A) >= minimum_support => A \in emitted_sets

\* C2: the support of every yielded pair is the number of given transactions
\* that contain all items of the pair's item-set.
C2_ExactSupport ==
    \A k \in DOMAIN results :
        results[k].support = brute_support(Range(results[k].items))

\* C3: among the yielded pairs, a subset never has a smaller support than a
\* superset.
C3_SupportMonotone ==
    \A a, b \in DOMAIN results :
        Range(results[a].items) \subseteq Range(results[b].items)
            => results[a].support >= results[b].support

\* C4: every list returned by order_transactions holds no item whose global
\* count is below minimum_support and is in non-increasing order of global count.
C4_NormalizerOutput ==
    \A k \in DOMAIN ordered :
        /\ \A j \in DOMAIN ordered[k] : global_count(ordered[k][j]) >= minimum_support
        /\ \A i, j \in DOMAIN ordered[k] :
               i < j => global_count(ordered[k][i]) >= global_count(ordered[k][j])

\* C5: order_transactions leaves the caller's transactions and item_sets as
\* they were: once counted, item_sets holds exactly the items whose global
\* count reaches minimum_support, each with that count.
C5_NormalizerPure ==
    pc # "count" =>
        /\ input_transactions = given
        /\ \A i \in DOMAIN item_sets :
               item_sets[i] >= minimum_support /\ item_sets[i] = global_count(i)

\* C8: with minimum_support above the number of transactions nothing is yielded.
C8_ThresholdAboveSize ==
    minimum_support > Len(given) => results = <<>>

----------------------------------------------------------------------------
(* C6, C7 : the tree and its route table after append_items calls *)

\* the non-root nodes of tree t
tree_nodes(t) == {n \in DOMAIN nodes : nodes[n].tree = t /\ n # trees[t].root}

\* the items on the way from the root to node n
item_path(n) ==
    LET p == path_to(store, n) IN [k \in DOMAIN p |-> nodes[p[k]].item]

is_prefix(p, q) == Len(p) <= Len(q) /\ SubSeq(q, 1, Len(p)) = p

\* C6: no two nodes below the same parent hold the same item, a node's count
\* is the number of inserted sequences that start with the node's item path,
\* and every non-empty prefix of an inserted sequence has exactly one node.
C6_TreeSharing ==
    LET N == tree_nodes(first_fp_tree)
    IN /\ \A n, m \in N :
              n # m => ~(nodes[n].parent = nodes[m].parent /\ nodes[n].item = nodes[m].item)
       /\ \A n \in N :
              nodes[n].count =
                  Cardinality({k \in DOMAIN ordered : is_prefix(item_path(n), ordered[k])})
       /\ \A k \in DOMAIN ordered : \A j \in 1..Len(ordered[k]) :
              Cardinality({n \in N : item_path(n) = SubSeq(ordered[k], 1, j)}) = 1

\* the same sequence of two or more items went in twice: one path, counts 2
C6_Witness ==
    /\ pc = "tree"
    /\ inserted = 2
    /\ ordered[1] = ordered[2]
    /\ Len(ordered[1]) >= 2
    /\ Cardinality(tree_nodes(first_fp_tree)) = Len(ordered[1])
    /\ \A n \in tree_nodes(first_fp_tree) : nodes[n].count = 2

\* C7: get_nodes(item) yields exactly the nodes of the tree that hold item,
\* each once and in the order of their creation; their counts add up to the
\* occurrences of item in the inserted sequences; an item of the tree has
\* exactly one route-table entry.
C7_RouteTable ==
    \A item \in Items :
        LET g == get_nodes(store, first_fp_tree, item)
            holders == {n \in tree_nodes(first_fp_tree) : nodes[n].item = item}
            entries == {r \in DOMAIN trees[first_fp_tree].routes :
                            trees[first_fp_tree].routes[r].item = item}
        IN /\ Range(g) = holders
           /\ \A a, b \in DOMAIN g : a < b => g[a] < g[b]
           /\ sum_counts(store, g) = total_occurrences(ordered, item)
           /\ Cardinality(entries) = IF holders = {} THEN 0 ELSE 1

\* an item sits at two places of the tree and one of its nodes is shared
C7_Witness ==
    /\ pc = "tree"
    /\ \E item \in Items :
           LET g == get_nodes(store, first_fp_tree, item)
           IN Len(g) >= 2 /\ \E a \in DOMAIN g : nodes[g[a]].count >= 2

----------------------------------------------------------------------------
(* C9 : termination of the mining recursion *)

distinct_items == UNION {Range(given[k]) : k \in DOMAIN given}

\* every active conditional_db call extends its caller's retrieved_list by one
\* item the caller's list does not hold, and no list is longer than the
\* number of distinct items of the input
suffix_chain ==
    pc = "mine" =>
        \A k \in DOMAIN stack :
            /\ Len(stack[k].retrieved_list) = k - 1
            /\ Len(stack[k].retrieved_list) <= Cardinality(distinct_items)
            /\ k > 1 =>
                   /\ Tail(stack[k].retrieved_list) = stack[k - 1].retrieved_list
                   /\ ~in_list(Head(stack[k].retrieved_list), stack[k - 1].retrieved_list)

\* C9: the generator is exhausted after finitely many steps, and along every
\* chain of nested conditional_db calls retrieved_list grows by exactly one
\* new item per level and never exceeds the number of distinct input items.
C9_Termination == []suffix_chain /\ <>(pc = "done")

\* a run that ended after nesting as deep as there are distinct items (two or
\* more), every conditional tree having had a non-empty route table
C9_Witness ==
    /\ pc = "done"
    /\ Cardinality(distinct_items) >= 2
    /\ \E k \in DOMAIN results : Len(results[k].items) = Cardinality(distinct_items)
    /\ Len(trees) >= 3
    /\ \A t \in 2..Len(trees) : trees[t].routes # <<>>

----------------------------------------------------------------------------
(* C10 : the counts of a conditional tree *)

RECURSIVE count_sum(_)
\* the sum of the counts of a set of nodes
count_sum(S) ==
    IF S = {} THEN 0
    ELSE LET n == CHOOSE m \in S : TRUE IN nodes[n].count + count_sum(S \ {n})

\* the nodes of tree t that hold item
holders_of(t, item) == {n \in tree_nodes(t) : nodes[n].item = item}

\* no path of tree t holds item twice
at_most_once(t, item) ==
    \A n \in holders_of(t, item) : occurrences(item_path(n), item) = 1

\* the item that the call in frame k is expanding while frame k + 1 is active
expanded_item(k) == trees[stack[k].tree].routes[stack[k].idx].item

\* the conditional tree cond was built from the nodes of src that hold item
counts_propagated(src, item, cond) ==
    \A c \in tree_nodes(cond) :
        /\ nodes[c].count =
               count_sum({x \in holders_of(src, item) : is_prefix(item_path(c), item_path(x))})
        /\ nodes[c].count # 0
        /\ nodes[c].item = item =>
               \E x \in holders_of(src, item) :
                   item_path(x) = item_path(c) /\ nodes[x].count = nodes[c].count

C11_MiningReadOnly ==
    [][pc = "mine" =>
          /\ \A n \in DOMAIN nodes : n \in DOMAIN nodes' /\ nodes'[n] = nodes[n]
          /\ \A t \in DOMAIN trees : t \in DOMAIN trees' /\ trees'[t] = trees[t]
          /\ \A n \in DOMAIN nodes' \ DOMAIN nodes :
                 nodes'[n].tree \in DOMAIN trees' \ DOMAIN trees]_vars

\* a conditional tree built from a conditional tree, two source trees being
\* under iteration, with a count written into one of its ancestor nodes
C11_Witness ==
    /\ pc = "mine"
    /\ Len(stack) >= 3
    /\ LET k == Len(stack) - 1
       IN /\ stack[k].tree # first_fp_tree
          /\ stack[k + 1].tree = Len(trees)
          /\ \E c \in tree_nodes(stack[k + 1].tree) :
                 /\ nodes[c].item # expanded_item(k)
                 /\ nodes[c].count >= 1

\* the emitted list holds no item twice
no_repeated_item(l) == \A i, j \in DOMAIN l : l[i] = l[j] => i = j

\* C12: within one run no two emitted pairs have the same set of items, and
\* no emitted list contains the same item twice.
C12_NoDuplicateResults ==
    /\ \A i, j \in DOMAIN results :
           Range(results[i].items) = Range(results[j].items) => i = j
    /\ \A i \in DOMAIN results : no_repeated_item(results[i].items)

====
